---- MODULE Spec2Model ----
(***************************************************************************)
(* A model of kes-to-eso.mjs: the conversion of legacy KES ExternalSecret  *)
(* manifests into ESO ExternalSecret manifests.                            *)
(*                                                                         *)
(* JavaScript values are tagged records, so that values of different       *)
(* types can be compared:                                                  *)
(*   [t |-> "undef"]            undefined (also: a missing property)       *)
(*   [t |-> "null"]             null (an empty YAML document or value)     *)
(*   [t |-> "str",  v |-> s]    a string                                   *)
(*   [t |-> "num",  v |-> s]    a number, written as its decimal text      *)
(*   [t |-> "date", v |-> s]    a Date (js-yaml's value of a timestamp)    *)
(*   [t |-> "obj",  f |-> fn]   an object: a function from its own keys    *)
(*   [t |-> "arr",  e |-> seq]  an array                                   *)
(*   [t |-> "throw"]            not a value: the evaluation threw          *)
(***************************************************************************)
EXTENDS Integers, Sequences, FiniteSets, TLC

VARIABLES
    cluster,          \* cli.flags.cluster
    refreshInterval,  \* cli.flags.refreshInterval
    paths,            \* number of files globby(input) resolved
    pc,               \* position of the run
    fileIdx,          \* index of the file being read (1-based)
    documents,        \* documents of the current file not yet flattened
    cands,            \* the flattened candidates read so far
    idx,              \* index of the element the current stage works on
    kept,             \* candidates that passed the filter, in order
    cleaned,          \* cleanKesItem of kept, in order
    esoSecrets,       \* the target resources built so far, in order
    log,              \* console output, in order
    mkdirs,           \* directories mkdirp.sync was called for
    writes,           \* the writeFileSync calls issued, in order
    disk,             \* content of the output tree: path -> text
    arg,              \* argument of a conversion function under test
    res               \* its result

vars == <<cluster, refreshInterval, paths, pc, fileIdx, documents, cands, idx,
          kept, cleaned, esoSecrets, log, mkdirs, writes, disk, arg, res>>

(***************************************************************************)
(* Bounds of the model.                                                    *)
(***************************************************************************)
MaxFiles == 2
MaxDocs == 2
MaxItems == 2
MaxCands == 3
MaxWide == 1
MaxRefs == 2

(***************************************************************************)
(* The value model.                                                        *)
(***************************************************************************)
U == [t |-> "undef"]
Null == [t |-> "null"]
THROW == [t |-> "throw"]
S(s) == [t |-> "str", v |-> s]
N(s) == [t |-> "num", v |-> s]
D(s) == [t |-> "date", v |-> s]
O(fn) == [t |-> "obj", f |-> fn]
A(seq) == [t |-> "arr", e |-> seq]
EmptyObj == O([k \in {} |-> U])

\* JavaScript truthiness: undefined, null, "" and 0 are falsy.
Truthy(x) ==
    CASE x.t = "undef" -> FALSE
      [] x.t = "null" -> FALSE
      [] x.t = "str" -> x.v /= ""
      [] x.t = "num" -> x.v /= "0"
      [] OTHER -> TRUE

\* Reading a property of undefined or null throws a TypeError.
Nullish(x) == x.t \in {"undef", "null"}

\* x[k] for a value that is not nullish: a missing property reads undefined.
Get(x, k) ==
    IF x.t = "obj" /\ k \in DOMAIN x.f THEN x.f[k] ELSE U

\* a || b
Or(a, b) == IF Truthy(a) THEN a ELSE b

\* o with property k set to v (o an object's function)
SetKey(fn, k, v) ==
    [x \in (DOMAIN fn) \cup {k} |-> IF x = k THEN v ELSE fn[x]]

\* delete x[k]: a no-op on a value that is no object or lacks the key
Delete(x, k) ==
    IF x.t = "obj" THEN O([y \in (DOMAIN x.f) \ {k} |-> x.f[y]]) ELSE x

\* String(x), as a template literal converts
ToStr(x) ==
    CASE x.t = "undef" -> "undefined"
      [] x.t = "null" -> "null"
      [] x.t \in {"str", "num", "date"} -> x.v
      [] x.t = "obj" -> "[object Object]"
      [] OTHER -> "[array]"

\* The ISO text Date.prototype.toJSON gives for a date (the dates of the model).
ToISO(s) ==
    CASE s = "2001-12-14" -> "2001-12-14T00:00:00.000Z"
      [] OTHER -> "1970-01-01T00:00:00.000Z"

RECURSIVE JsonClone(_)
\* JSON.parse(JSON.stringify(x)): a Date becomes its ISO string, a property
\* whose value is undefined is dropped, an undefined array element is null.
JsonClone(x) ==
    CASE x.t = "obj" ->
           O([k \in {y \in DOMAIN x.f : x.f[y].t /= "undef"} |-> JsonClone(x.f[k])])
      [] x.t = "arr" ->
           A([i \in 1..Len(x.e) |->
                 IF x.e[i].t = "undef" THEN Null ELSE JsonClone(x.e[i])])
      [] x.t = "date" -> [t |-> "str", v |-> ToISO(x.v)]
      [] OTHER -> x

(***************************************************************************)
(* The functions of the program.                                           *)
(***************************************************************************)
KesApiVersion == "kubernetes-client.io/v1"
KesKind == "ExternalSecret"
EsoApiVersion == "external-secrets.io/v1alpha1"
LastApplied == "kubectl.kubernetes.io/last-applied-configuration"
ManagedFields == {"creationTimestamp", "generation", "resourceVersion", "uid", "selfLink"}
OutDir == "./converted"

\* What console.error prints for a failed check: the arguments after 'Expected'.
Diag(item, field, value) ==
    [stream |-> "stderr", name |-> Get(Get(item, "metadata"), "name"),
     field |-> field, value |-> value]

\* fail(item, field, value): threw is a TypeError (item or item.metadata is
\* undefined or null where a property of it is read), ret the value returned,
\* out what was printed.  value is U for the call with two arguments.
fail(item, field, value) ==
    LET Report == IF Nullish(Get(item, "metadata"))
                  THEN [threw |-> TRUE, ret |-> FALSE, out |-> <<>>]
                  ELSE [threw |-> FALSE, ret |-> TRUE,
                        out |-> <<Diag(item, field, value)>>]
        Pass == [threw |-> FALSE, ret |-> FALSE, out |-> <<>>]
    IN IF Nullish(item) THEN [threw |-> TRUE, ret |-> FALSE, out |-> <<>>]
       ELSE IF ~Truthy(value)
            THEN IF ~Truthy(Get(item, field)) THEN Report ELSE Pass
            ELSE IF Get(item, field) /= value THEN Report ELSE Pass

\* filterItem without the check of kind
filterItemSkipsKind(item) ==
    LET a == fail(item, "apiVersion", S(KesApiVersion))
        s == fail(item, "spec", U)
        Thrown == [threw |-> TRUE, keep |-> FALSE, out |-> <<>>]
    IN IF a.threw THEN Thrown
       ELSE IF a.ret THEN [threw |-> FALSE, keep |-> FALSE, out |-> a.out]
       ELSE IF s.threw THEN Thrown
       ELSE IF s.ret THEN [threw |-> FALSE, keep |-> FALSE, out |-> s.out]
       ELSE [threw |-> FALSE, keep |-> TRUE, out |-> <<>>]

\* The predicate of .filter: !(fail(apiVersion) || fail(kind) || fail(spec)),
\* with || evaluated left to right and short-circuited.  keep is its value.
filterItem(item) ==
    LET a == fail(item, "apiVersion", S(KesApiVersion))
        k == fail(item, "kind", S(KesKind))
        s == fail(item, "spec", U)
        Thrown == [threw |-> TRUE, keep |-> FALSE, out |-> <<>>]
    IN IF a.threw THEN Thrown
       ELSE IF a.ret THEN [threw |-> FALSE, keep |-> FALSE, out |-> a.out]
       ELSE IF k.threw THEN Thrown
       ELSE IF k.ret THEN [threw |-> FALSE, keep |-> FALSE, out |-> k.out]
       ELSE IF s.threw THEN Thrown
       ELSE IF s.ret THEN [threw |-> FALSE, keep |-> FALSE, out |-> s.out]
       ELSE [threw |-> FALSE, keep |-> TRUE, out |-> <<>>]

\* delete object[k] for each k of a set of keys
DeleteAll(x, ks) ==
    IF x.t = "obj" THEN O([y \in (DOMAIN x.f) \ ks |-> x.f[y]]) ELSE x

\* cleanKesItem without `delete copy.metadata.uid`
cleanKesItemKeepsUid(item) ==
    LET copy == JsonClone(item)
        md == Get(copy, "metadata")
        ann == Get(md, "annotations")
        md1 == DeleteAll(md, ManagedFields \ {"uid"})
        md2 == IF Nullish(ann) \/ md1.t /= "obj" THEN md1
               ELSE O(SetKey(md1.f, "annotations", Delete(ann, LastApplied)))
    IN IF Nullish(md) THEN THROW
       ELSE Delete(O(SetKey(copy.f, "metadata", md2)), "status")

\* cleanKesItem(item): THROW when copy.metadata is undefined or null.
cleanKesItem(item) ==
    LET copy == JsonClone(item)
        md == Get(copy, "metadata")
        ann == Get(md, "annotations")
        md1 == DeleteAll(md, ManagedFields)
        \* annotations?.[...]: skipped when annotations is undefined or null
        md2 == IF Nullish(ann) \/ md1.t /= "obj" THEN md1
               ELSE O(SetKey(md1.f, "annotations", Delete(ann, LastApplied)))
    IN IF Nullish(md) THEN THROW
       ELSE Delete(O(SetKey(copy.f, "metadata", md2)), "status")

\* createRemoteRef with versionId taking precedence over version
createRemoteRefIdFirst(dataItem) ==
    LET version == Or(Or(Get(dataItem, "versionId"), Get(dataItem, "version")),
                      Get(dataItem, "versionStage"))
        r0 == [key |-> Get(dataItem, "key")]
        r1 == IF Truthy(version) THEN SetKey(r0, "version", version) ELSE r0
        r2 == IF Truthy(Get(dataItem, "property"))
              THEN SetKey(r1, "property", Get(dataItem, "property")) ELSE r1
    IN IF Nullish(dataItem) THEN THROW ELSE O(r2)

\* createRemoteRef(dataItem): THROW when dataItem is undefined or null.
createRemoteRef(dataItem) ==
    LET version == Or(Or(Get(dataItem, "version"), Get(dataItem, "versionId")),
                      Get(dataItem, "versionStage"))
        r0 == [key |-> Get(dataItem, "key")]
        r1 == IF Truthy(version) THEN SetKey(r0, "version", version) ELSE r0
        r2 == IF Truthy(Get(dataItem, "property"))
              THEN SetKey(r1, "property", Get(dataItem, "property")) ELSE r1
    IN IF Nullish(dataItem) THEN THROW ELSE O(r2)

\* xs.map(f) for a result sequence rs: THROW when a call threw
MapResult(rs) ==
    IF \E i \in 1..Len(rs) : rs[i] = THROW THEN THROW ELSE A(rs)

\* convertData(kesData): THROW when kesData has no map method (is no array)
\* or an element is undefined or null.
convertData(kesData) ==
    IF kesData.t /= "arr" THEN THROW
    ELSE MapResult([i \in 1..Len(kesData.e) |->
            IF Nullish(kesData.e[i]) THEN THROW
            ELSE O([secretKey |-> Get(kesData.e[i], "name"),
                    remoteRef |-> createRemoteRef(kesData.e[i])])])

\* convertDataFrom that builds the reference of an object element from the
\* element's own fields
convertDataFromDirect(kesDataFrom) ==
    IF kesDataFrom.t /= "arr" THEN THROW
    ELSE MapResult([i \in 1..Len(kesDataFrom.e) |->
            IF kesDataFrom.e[i].t = "obj" THEN createRemoteRef(kesDataFrom.e[i])
            ELSE createRemoteRef(O([key |-> kesDataFrom.e[i]]))])

\* convertDataFrom(kesDataFrom): every element is wrapped as {key: element}.
convertDataFrom(kesDataFrom) ==
    IF kesDataFrom.t /= "arr" THEN THROW
    ELSE MapResult([i \in 1..Len(kesDataFrom.e) |->
            createRemoteRef(O([key |-> kesDataFrom.e[i]]))])

\* secretStoreRef.kind with the two kinds exchanged
storeKindSwapped(c) == IF c THEN "SecretStore" ELSE "ClusterSecretStore"

\* secretStoreRef.kind
storeKind(c) == IF c THEN "ClusterSecretStore" ELSE "SecretStore"

\* The callback of the second .map: the target resource built from kes.
transform(kes, ri, c) ==
    LET spec == Get(kes, "spec")
        s0 == [refreshInterval |-> S(ri),
               secretStoreRef |-> O([name |-> Get(spec, "backendType"),
                                     kind |-> S(storeKind(c))])]
        s1 == IF Truthy(Get(spec, "template"))
              THEN SetKey(s0, "target", O([template |-> Get(spec, "template")]))
              ELSE s0
        data == IF Truthy(Get(spec, "data")) THEN convertData(Get(spec, "data")) ELSE U
        s2 == IF Truthy(Get(spec, "data")) THEN SetKey(s1, "data", data) ELSE s1
        dataFrom == IF Truthy(Get(spec, "dataFrom"))
                    THEN convertDataFrom(Get(spec, "dataFrom")) ELSE U
        s3 == IF Truthy(Get(spec, "dataFrom")) THEN SetKey(s2, "dataFrom", dataFrom) ELSE s2
    IN IF data = THROW \/ dataFrom = THROW THEN THROW
       ELSE O([apiVersion |-> S(EsoApiVersion), kind |-> S("ExternalSecret"),
               metadata |-> Get(kes, "metadata"), spec |-> O(s3)])

\* esoSecret.metadata.namespace || 'default'
namespaceOf(esoSecret) ==
    Or(Get(Get(esoSecret, "metadata"), "namespace"), S("default"))

\* path.resolve(out, namespace, `${name}.yaml`), kept as its segments (the
\* namespaces and names of the model hold no path separator)
outputPath(esoSecret) ==
    <<OutDir, ToStr(namespaceOf(esoSecret)),
      ToStr(Get(Get(esoSecret, "metadata"), "name")), ".yaml">>

\* yaml.dump(esoSecret): the text of the document, told apart from the
\* document it serializes
yamlDump(esoSecret) == [yaml |-> esoSecret]

(***************************************************************************)
(* The inputs of the model: parsed YAML values.  A parsed object never     *)
(* holds a property whose value is undefined, so MkObj leaves those out.   *)
(***************************************************************************)
MkObj(fn) == O([k \in {y \in DOMAIN fn : fn[y] /= U} |-> fn[k]])

Annotations ==
    O([k \in {LastApplied, "team"} |->
          IF k = LastApplied THEN S("{...}") ELSE S("payments")])

\* metadata as `kubectl get -o yaml` prints it, with an owner reference
MetaFull ==
    O([name |-> S("a"), namespace |-> S("prod"),
       creationTimestamp |-> S("2021-01-01T00:00:00Z"), generation |-> N("1"),
       resourceVersion |-> S("42"), uid |-> S("u-1"), selfLink |-> S("/apis/a"),
       annotations |-> Annotations,
       ownerReferences |-> A(<<O([name |-> S("parent"), uid |-> S("u-0")])>>)])

SpecFull ==
    O([backendType |-> S("vault"),
       template |-> O([type |-> S("Opaque")]),
       data |-> A(<<O([name |-> S("password"), key |-> S("secret/db"),
                       version |-> S("v1"), versionId |-> S("id2"),
                       property |-> S("pw")]),
                    O([name |-> S("user"), key |-> S("secret/db"),
                       versionId |-> S("id2")])>>),
       dataFrom |-> A(<<S("foo"),
                        O([key |-> S("bar"), version |-> S("v1"),
                           property |-> S("p")])>>)])

Candidate(apiVersion, kind, metadata, spec) ==
    MkObj([apiVersion |-> apiVersion, kind |-> kind, metadata |-> metadata,
           spec |-> spec, status |-> O([status |-> S("SUCCESS")])])

\* The candidates of the runs that follow several candidates through the run.
SmallPool ==
    { Candidate(S(KesApiVersion), S(KesKind), MetaFull, SpecFull),
      Candidate(S(KesApiVersion), S(KesKind),
                O([name |-> S("a"), namespace |-> S("prod")]),
                O([backendType |-> S("aws")])),
      Candidate(S(KesApiVersion), S(KesKind), O([name |-> S("b")]), EmptyObj),
      Candidate(S(KesApiVersion), S("Secret"), O([name |-> S("c")]), EmptyObj),
      Candidate(S("kustomize.config.k8s.io/v1beta1"), S("Kustomization"), U, U),
      Candidate(S(KesApiVersion), S(KesKind), U, SpecFull) }

\* The candidates of the runs of one candidate: every combination of fields.
WidePool ==
    { Candidate(a, k, m, sp) :
        a \in {U, S(KesApiVersion), S("v1")},
        k \in {U, S(KesKind), S("Secret")},
        m \in {U, EmptyObj, O([name |-> S("a")]), MetaFull,
               O([name |-> D("2001-12-14"), namespace |-> S("")])},
        sp \in {U, Null, EmptyObj, SpecFull} }

\* Sequences over a set, of length at most n
SeqsUpTo(set, n) == UNION {[1..m -> set] : m \in 0..n}

Min(a, b) == IF a < b THEN a ELSE b

\* A document holding `items`, as `kubectl get -o yaml` prints a list
ListDoc(items) ==
    O([apiVersion |-> S("v1"), kind |-> S("List"), items |-> A(items)])

\* The documents a file can hold when `room` more candidates fit the bound.
DocsOf(pool, room) ==
    {Null} \cup (IF room >= 1 THEN pool ELSE {})
           \cup {ListDoc(items) : items \in SeqsUpTo(pool, Min(MaxItems, room))}

(***************************************************************************)
(* The run: lines 122-196.                                                 *)
(***************************************************************************)
RunInit ==
    /\ paths \in 0..MaxFiles
    /\ pc = IF paths = 0 THEN "check" ELSE "open"
    /\ fileIdx = 1
    /\ documents = 0
    /\ cands = <<>>
    /\ idx = 1
    /\ kept = <<>>
    /\ cleaned = <<>>
    /\ esoSecrets = <<>>
    /\ log = <<>>
    /\ mkdirs = {}
    /\ writes = <<>>
    /\ disk = <<>>
    /\ arg = U
    /\ res = U

Init ==
    /\ cluster \in BOOLEAN
    /\ refreshInterval \in {"1h", "30m"}
    /\ RunInit

\* The run with the default flags.
InitWide ==
    /\ cluster = FALSE
    /\ refreshInterval = "1h"
    /\ RunInit

\* An uncaught exception: the async function rejects and the run ends.  The
\* position records the stage that threw.
Crash(at) ==
    /\ pc' = at
    /\ UNCHANGED <<cluster, refreshInterval, paths, fileIdx, documents, cands,
                   idx, kept, cleaned, esoSecrets, log, mkdirs, writes, disk,
                   arg, res>>

\* The stage after the last file was flattened, and after the filter: the
\* .filter and the two .map callbacks run once per element, so not at all
\* over an empty array.
AfterRead(cs) == IF cs = <<>> THEN "check" ELSE "filter"
AfterFilter(ks) == IF ks = <<>> THEN "check" ELSE "clean"

\* fs.readFileSync or yaml.loadAll throws: the file is unreadable or no YAML.
OpenFileFails ==
    /\ pc = "open"
    /\ Crash("crash_read")

\* yaml.loadAll(fs.readFileSync(path)): the file holds n documents.
OpenFile ==
    /\ pc = "open"
    /\ \E n \in 0..MaxDocs :
          /\ documents' = n
          /\ IF n > 0 THEN pc' = "flatten" /\ fileIdx' = fileIdx
             ELSE IF fileIdx < paths THEN pc' = "open" /\ fileIdx' = fileIdx + 1
             ELSE pc' = AfterRead(cands) /\ fileIdx' = fileIdx
    /\ UNCHANGED <<cluster, refreshInterval, paths, cands, idx, kept, cleaned,
                   esoSecrets, log, mkdirs, writes, disk, arg, res>>

\* The callback of documents.flatMap: parsed.items if truthy, else parsed;
\* flatMap spreads an array and keeps any other value as one element.
flatten(parsed) ==
    LET items == Get(parsed, "items")
    IN IF Truthy(items)
       THEN IF items.t = "arr" THEN items.e ELSE <<items>>
       ELSE <<parsed>>

\* One document of the current file is flattened; reading `items` of an
\* empty (null) document throws.
FlattenDoc(pool, cap) ==
    /\ pc = "flatten"
    /\ \E parsed \in DocsOf(pool, cap - Len(cands)) :
          IF Nullish(parsed) THEN Crash("crash_read")
          ELSE /\ cands' = cands \o flatten(parsed)
               /\ documents' = documents - 1
               /\ IF documents > 1 THEN pc' = "flatten" /\ fileIdx' = fileIdx
                  ELSE IF fileIdx < paths
                       THEN pc' = "open" /\ fileIdx' = fileIdx + 1
                       ELSE pc' = AfterRead(cands') /\ fileIdx' = fileIdx
               /\ UNCHANGED <<cluster, refreshInterval, paths, idx, kept,
                              cleaned, esoSecrets, log, mkdirs, writes, disk,
                              arg, res>>

\* The .filter callback on candidate idx.
FilterItem ==
    /\ pc = "filter"
    /\ LET r == filterItem(cands[idx])
           ks == IF r.keep THEN Append(kept, cands[idx]) ELSE kept
       IN IF r.threw THEN Crash("crash_filter")
          ELSE /\ log' = log \o r.out
               /\ kept' = ks
               /\ IF idx < Len(cands) THEN pc' = "filter" /\ idx' = idx + 1
                  ELSE pc' = AfterFilter(ks) /\ idx' = 1
               /\ UNCHANGED <<cluster, refreshInterval, paths, fileIdx,
                              documents, cands, cleaned, esoSecrets, mkdirs,
                              writes, disk, arg, res>>

\* .map(cleanKesItem) on kept element idx.
CleanItem ==
    /\ pc = "clean"
    /\ LET c == cleanKesItem(kept[idx])
       IN IF c = THROW THEN Crash("crash_clean")
          ELSE /\ cleaned' = Append(cleaned, c)
               /\ IF idx < Len(kept) THEN pc' = "clean" /\ idx' = idx + 1
                  ELSE pc' = "transform" /\ idx' = 1
               /\ UNCHANGED <<cluster, refreshInterval, paths, fileIdx,
                              documents, cands, kept, esoSecrets, log, mkdirs,
                              writes, disk, arg, res>>

\* path.dirname(outputPath)
dirname(p) == <<p[1], p[2]>>

\* The content of the output tree after fs.writeFileSync(p, text)
writeFileSync(d, p, text) ==
    IF \E i \in 1..Len(d) : d[i].path = p
    THEN [i \in 1..Len(d) |-> IF d[i].path = p THEN [path |-> p, text |-> text]
                                              ELSE d[i]]
    ELSE Append(d, [path |-> p, text |-> text])

\* TransformItem that writes each target resource as soon as it is built
TransformItemStreams ==
    /\ pc = "transform"
    /\ LET eso == transform(cleaned[idx], refreshInterval, cluster)
           p == outputPath(eso)
       IN IF eso = THROW THEN Crash("crash_transform")
          ELSE /\ esoSecrets' = Append(esoSecrets, eso)
               /\ log' = Append(log, [stream |-> "stdout", writing |-> p])
               /\ mkdirs' = mkdirs \cup {dirname(p)}
               /\ writes' = Append(writes, [path |-> p, text |-> yamlDump(eso)])
               /\ disk' = writeFileSync(disk, p, yamlDump(eso))
               /\ IF idx < Len(cleaned) THEN pc' = "transform" /\ idx' = idx + 1
                  ELSE pc' = "done" /\ idx' = idx
               /\ UNCHANGED <<cluster, refreshInterval, paths, fileIdx,
                              documents, cands, kept, cleaned, arg, res>>

\* The second .map callback on cleaned element idx.
TransformItem ==
    /\ pc = "transform"
    /\ LET eso == transform(cleaned[idx], refreshInterval, cluster)
       IN IF eso = THROW THEN Crash("crash_transform")
          ELSE /\ esoSecrets' = Append(esoSecrets, eso)
               /\ IF idx < Len(cleaned) THEN pc' = "transform" /\ idx' = idx + 1
                  ELSE pc' = "check" /\ idx' = 1
               /\ UNCHANGED <<cluster, refreshInterval, paths, fileIdx,
                              documents, cands, kept, cleaned, log, mkdirs,
                              writes, disk, arg, res>>

Warning == [stream |-> "stderr", warn |-> "No convertable ExternalSecrets found"]

\* if (esoSecrets.length === 0) { console.warn(...); process.exit(1); }
ExitCheck ==
    /\ pc = "check"
    /\ IF Len(esoSecrets) = 0
       THEN log' = Append(log, Warning) /\ pc' = "exit1"
       ELSE log' = log /\ pc' = "write"
    /\ idx' = 1
    /\ UNCHANGED <<cluster, refreshInterval, paths, fileIdx, documents, cands,
                   kept, cleaned, esoSecrets, mkdirs, writes, disk, arg, res>>

\* The forEach callback on target resource idx.
WriteItem ==
    /\ pc = "write"
    /\ LET esoSecret == esoSecrets[idx]
           output == yamlDump(esoSecret)
           p == outputPath(esoSecret)
       IN /\ log' = Append(log, [stream |-> "stdout", writing |-> p])
          /\ mkdirs' = mkdirs \cup {dirname(p)}
          /\ writes' = Append(writes, [path |-> p, text |-> output])
          /\ disk' = writeFileSync(disk, p, output)
    /\ IF idx < Len(esoSecrets) THEN pc' = "write" /\ idx' = idx + 1
       ELSE pc' = "done" /\ idx' = idx
    /\ UNCHANGED <<cluster, refreshInterval, paths, fileIdx, documents, cands,
                   kept, cleaned, esoSecrets, arg, res>>

\* mkdirp.sync or fs.writeFileSync throws on target resource idx, after the
\* 'Writing to' line was printed: the files written so far stay.
WriteFails ==
    /\ pc = "write"
    /\ log' = Append(log, [stream |-> "stdout", writing |-> outputPath(esoSecrets[idx])])
    /\ pc' = "crash_write"
    /\ UNCHANGED <<cluster, refreshInterval, paths, fileIdx, documents, cands,
                   idx, kept, cleaned, esoSecrets, mkdirs, writes, disk, arg, res>>

Next ==
    \/ OpenFileFails
    \/ OpenFile
    \/ FlattenDoc(SmallPool, MaxCands)
    \/ FilterItem
    \/ CleanItem
    \/ TransformItem
    \/ ExitCheck
    \/ WriteItem
    \/ WriteFails

NextWide ==
    \/ OpenFileFails
    \/ OpenFile
    \/ FlattenDoc(WidePool, MaxWide)
    \/ FilterItem
    \/ CleanItem
    \/ TransformItem
    \/ ExitCheck
    \/ WriteItem
    \/ WriteFails

Spec == Init /\ [][Next]_vars

SpecWide == InitWide /\ [][NextWide]_vars

(***************************************************************************)
(* The conversion functions alone, on every argument of a bounded set.     *)
(***************************************************************************)
DataItems ==
    { MkObj([name |-> S("password"), key |-> k, version |-> v, versionId |-> vi,
             versionStage |-> vs, property |-> pr]) :
        k \in {U, S("secret/db")},
        v \in {U, S(""), N("0"), S("v1")},
        vi \in {U, S(""), S("id2")},
        vs \in {U, S("AWSCURRENT")},
        pr \in {U, S(""), S("pw")} }

\* Elements of the sequences given to convertData
FewDataItems ==
    { MkObj([name |-> n, key |-> S("secret/db"), version |-> v, versionId |-> vi,
             property |-> pr]) :
        n \in {S("password")}, v \in {U, S("v1")}, vi \in {U, S("id2")},
        pr \in {U, S("pw")} }

\* Elements of the sequences given to convertDataFrom: key strings and objects
DataFromElems ==
    { S("foo"), S("bar"),
      O([key |-> S("baz"), version |-> S("v1"), property |-> S("p")]),
      O([key |-> S("qux"), versionId |-> S("id2")]) }

Calls ==
    [fn : {"createRemoteRef"}, x : DataItems]
      \cup [fn : {"convertData"}, x : {A(xs) : xs \in SeqsUpTo(FewDataItems, MaxRefs)}]
      \cup [fn : {"convertDataFrom"},
            x : {A(xs) : xs \in SeqsUpTo(DataFromElems, MaxRefs)}]

InitRef ==
    /\ cluster = FALSE
    /\ refreshInterval = "1h"
    /\ paths = 0
    /\ pc = "call"
    /\ fileIdx = 1
    /\ documents = 0
    /\ cands = <<>>
    /\ idx = 1
    /\ kept = <<>>
    /\ cleaned = <<>>
    /\ esoSecrets = <<>>
    /\ log = <<>>
    /\ mkdirs = {}
    /\ writes = <<>>
    /\ disk = <<>>
    /\ arg \in Calls
    /\ res = U

Return(r) ==
    /\ res' = r
    /\ pc' = "returned"
    /\ UNCHANGED <<cluster, refreshInterval, paths, fileIdx, documents, cands,
                   idx, kept, cleaned, esoSecrets, log, mkdirs, writes, disk, arg>>

CallCreateRemoteRef ==
    /\ pc = "call"
    /\ arg.fn = "createRemoteRef"
    /\ Return(createRemoteRef(arg.x))

CallConvertData ==
    /\ pc = "call"
    /\ arg.fn = "convertData"
    /\ Return(convertData(arg.x))

CallConvertDataFrom ==
    /\ pc = "call"
    /\ arg.fn = "convertDataFrom"
    /\ Return(convertDataFrom(arg.x))

NextRef ==
    \/ CallCreateRemoteRef
    \/ CallConvertData
    \/ CallConvertDataFrom

SpecRef == InitRef /\ [][NextRef]_vars

(***************************************************************************)
(* The vocabulary of the properties.                                       *)
(***************************************************************************)
\* A candidate is eligible: the three checks of the eligibility filter.
Eligible(item) ==
    /\ Get(item, "apiVersion") = S(KesApiVersion)
    /\ Get(item, "kind") = S(KesKind)
    /\ Truthy(Get(item, "spec"))

\* The eligible ones among the first n candidates, in order
Filtered(n) == SelectSeq(SubSeq(cands, 1, n), Eligible)

\* The first check a candidate fails
FailingField(item) ==
    IF Get(item, "apiVersion") /= S(KesApiVersion) THEN "apiVersion"
    ELSE IF Get(item, "kind") /= S(KesKind) THEN "kind" ELSE "spec"

IsDiag(e) == "field" \in DOMAIN e
IsWriting(e) == "writing" \in DOMAIN e
IsWarning(e) == "warn" \in DOMAIN e

\* Positions after the filter has seen every candidate
PastFilter == {"clean", "transform", "check", "write", "done", "exit1",
               "crash_clean", "crash_transform", "crash_write"}

\* The run has ended, and not by a failure of reading, parsing or writing a file
Ended == {"done", "exit1", "crash_filter", "crash_clean", "crash_transform"}

\* Something was issued to the output tree
Issued ==
    \/ writes /= <<>>
    \/ mkdirs /= {}
    \/ disk /= <<>>
    \/ \E i \in 1..Len(log) : IsWriting(log[i])

\* The path the write of a resource goes to: <out>/<namespace>/<name>.yaml
PathOf(item) ==
    LET ns == Get(Get(item, "metadata"), "namespace")
    IN <<OutDir, IF Truthy(ns) THEN ToStr(ns) ELSE "default",
         ToStr(Get(Get(item, "metadata"), "name")), ".yaml">>

RECURSIVE KeysUnder(_)
\* Every key that appears under a value, at any depth
KeysUnder(x) ==
    CASE x.t = "obj" -> (DOMAIN x.f) \cup UNION {KeysUnder(x.f[k]) : k \in DOMAIN x.f}
      [] x.t = "arr" -> UNION {KeysUnder(x.e[i]) : i \in 1..Len(x.e)}
      [] OTHER -> {}

\* The remote reference the specification describes for a source object
VersionOf(src) ==
    IF Truthy(Get(src, "version")) THEN Get(src, "version")
    ELSE IF Truthy(Get(src, "versionId")) THEN Get(src, "versionId")
    ELSE IF Truthy(Get(src, "versionStage")) THEN Get(src, "versionStage")
    ELSE U

IsRefOf(r, src) ==
    /\ r.t = "obj"
    /\ "key" \in DOMAIN r.f
    /\ DOMAIN r.f \subseteq {"key", "version", "property"}
    /\ r.f["key"] = Get(src, "key")
    /\ IF VersionOf(src) = U THEN "version" \notin DOMAIN r.f
       ELSE Get(r, "version") = VersionOf(src)
    /\ IF Truthy(Get(src, "property")) THEN Get(r, "property") = Get(src, "property")
       ELSE "property" \notin DOMAIN r.f

(***************************************************************************)
(* C1.  The filter keeps a candidate if and only if its apiVersion is      *)
(* 'kubernetes-client.io/v1', its kind is 'ExternalSecret' and its spec is *)
(* truthy: at every position the kept candidates are the eligible ones     *)
(* among the candidates filtered so far, in order; and no target resource  *)
(* and no write exists beyond the kept candidates.                         *)
(***************************************************************************)
C1_FilterKeepsExactlyEligible ==
    /\ pc \in {"open", "flatten", "crash_read"} => kept = <<>>
    /\ pc \in {"filter", "crash_filter"} => kept = Filtered(idx - 1)
    /\ pc \in PastFilter => kept = Filtered(Len(cands))
    /\ Len(cleaned) <= Len(kept)
    /\ Len(esoSecrets) <= Len(cleaned)
    /\ Len(writes) <= Len(esoSecrets)
    /\ Len(disk) <= Len(writes)
    /\ \A i \in 1..Len(writes) : writes[i].path = PathOf(cleaned[i])

\* A candidate of the right apiVersion and kind whose spec is null was
\* dropped with a diagnostic, and the run ended without a write.
C1_Witness ==
    /\ pc = "exit1"
    /\ \E i \in 1..Len(cands) :
          /\ Get(cands[i], "apiVersion") = S(KesApiVersion)
          /\ Get(cands[i], "kind") = S(KesKind)
          /\ Get(cands[i], "spec") = Null
    /\ kept = <<>>
    /\ \E i \in 1..Len(log) : IsDiag(log[i]) /\ log[i].field = "spec"
    /\ writes = <<>>

(***************************************************************************)
(* C2.  Once the filter has seen every candidate: with no eligible         *)
(* candidate the run warns and ends in failure with nothing created or     *)
(* written; otherwise every target resource is written and the run ends    *)
(* in success.                                                             *)
(***************************************************************************)
C2_ExitOrWriteAll ==
    pc \in Ended \ {"crash_filter"} =>
       IF Filtered(Len(cands)) = <<>>
       THEN /\ pc = "exit1"
            /\ \E i \in 1..Len(log) : IsWarning(log[i])
            /\ ~Issued
       ELSE /\ pc = "done"
            /\ Len(writes) = Len(Filtered(Len(cands)))

C4_RemoteRefPrecedence ==
    /\ (pc = "returned" /\ arg.fn = "createRemoteRef") => IsRefOf(res, arg.x)
    /\ (pc = "returned" /\ arg.fn = "convertData") =>
          /\ res.t = "arr"
          /\ Len(res.e) = Len(arg.x.e)
          /\ \A i \in 1..Len(res.e) :
                /\ DOMAIN res.e[i].f = {"secretKey", "remoteRef"}
                /\ res.e[i].f["secretKey"] = Get(arg.x.e[i], "name")
                /\ IsRefOf(res.e[i].f["remoteRef"], arg.x.e[i])

\* createRemoteRef returned for a source with both version and versionId.
C4_Witness ==
    /\ pc = "returned"
    /\ arg.fn = "createRemoteRef"
    /\ Get(arg.x, "version") = S("v1")
    /\ Get(arg.x, "versionId") = S("id2")
    /\ Get(res, "version") = S("v1")

(***************************************************************************)
(* C5 as stated.  The target's metadata.name equals the source's, none of  *)
(* creationTimestamp, generation, resourceVersion, uid, selfLink appears   *)
(* under the target's metadata at any depth, and the only annotation       *)
(* removed is the last-applied-configuration one.                          *)
(***************************************************************************)
C5_NoManagedKeyAtAnyDepth ==
    \A i \in 1..Len(esoSecrets) :
       LET src == Get(kept[i], "metadata")
           md == Get(esoSecrets[i], "metadata")
       IN /\ Get(md, "name") = Get(src, "name")
          /\ KeysUnder(md) \cap ManagedFields = {}
          /\ Get(md, "annotations") = Delete(Get(src, "annotations"), LastApplied)

(***************************************************************************)
(* C5 amended.  The target's metadata is the JSON copy of the source's     *)
(* without the five managed keys as direct keys of metadata and without    *)
(* the last-applied-configuration annotation: metadata.name equals the     *)
(* source's for every name that is a string (a timestamp name becomes its  *)
(* ISO string), every other key of metadata and every other annotation is  *)
(* kept, and a managed key nested deeper (ownerReferences[].uid) stays.    *)
(***************************************************************************)
C5_ManagedKeysStrippedAtTopLevel ==
    \A i \in 1..Len(esoSecrets) :
       LET src == Get(kept[i], "metadata")
           md == Get(esoSecrets[i], "metadata")
       IN /\ md.t = "obj"
          /\ Get(md, "name") = JsonClone(Get(src, "name"))
          /\ Get(src, "name").t = "str" => Get(md, "name") = Get(src, "name")
          /\ DOMAIN md.f = (DOMAIN src.f) \ ManagedFields
          /\ \A k \in (DOMAIN md.f) \ {"annotations"} : md.f[k] = JsonClone(src.f[k])
          /\ Get(md, "annotations") = Delete(Get(src, "annotations"), LastApplied)

\* A resource with managed fields, an owner reference and both annotations
\* was converted and written.
C5_Witness ==
    /\ pc = "done"
    /\ Len(esoSecrets) >= 1
    /\ Get(kept[1], "metadata") = MetaFull
    /\ "uid" \notin DOMAIN Get(esoSecrets[1], "metadata").f
    /\ "uid" \in KeysUnder(Get(esoSecrets[1], "metadata"))
    /\ DOMAIN Get(Get(esoSecrets[1], "metadata"), "annotations").f = {"team"}

\* The writes and the output tree of a run that wrote every eligible candidate
WritesAsClaimed ==
    LET el == Filtered(Len(cands))
    IN /\ Len(writes) = Len(el)
       /\ \A i \in 1..Len(writes) :
             /\ writes[i].path = PathOf(el[i])
             /\ writes[i].text = yamlDump(esoSecrets[i])
       /\ {disk[i].path : i \in 1..Len(disk)} = {writes[i].path : i \in 1..Len(writes)}
       /\ \A i \in 1..Len(disk) : \E j \in 1..Len(writes) :
             /\ writes[j].path = disk[i].path
             /\ writes[j].text = disk[i].text
             /\ \A k \in (j + 1)..Len(writes) : writes[k].path /= disk[i].path

(***************************************************************************)
(* C6.  With at least one eligible candidate the run issues exactly one    *)
(* write per eligible candidate, in the order of the candidates, to        *)
(* <out>/<namespace>/<name>.yaml with namespace 'default' when absent; a   *)
(* later write to a path replaces the earlier content.                     *)
(***************************************************************************)
C6_OneWritePerEligibleInOrder ==
    (pc \in Ended /\ Filtered(Len(cands)) /= <<>>) => WritesAsClaimed

\* What the write loop does in the runs that reach their end.
WriteLoopWhenDone == pc = "done" => WritesAsClaimed

(***************************************************************************)
(* C7.  A candidate that fails a check never ends the run, whatever fields *)
(* it carries: it is dropped with one diagnostic naming the resource and   *)
(* the failing field (and the expected value of apiVersion and kind), and  *)
(* the filter goes on to the next candidate.                               *)
(***************************************************************************)
C7_IneligibleIsNotFatal ==
    /\ pc = "crash_filter" => Eligible(cands[idx])
    /\ pc \in PastFilter =>
          LET bad == SelectSeq(cands, LAMBDA c : ~Eligible(c))
              diags == SelectSeq(log, IsDiag)
          IN /\ Len(diags) = Len(bad)
             /\ \A i \in 1..Len(bad) :
                   /\ diags[i].name = Get(Get(bad[i], "metadata"), "name")
                   /\ diags[i].field = FailingField(bad[i])
                   /\ diags[i].value =
                         (IF diags[i].field = "apiVersion" THEN S(KesApiVersion)
                          ELSE IF diags[i].field = "kind" THEN S(KesKind) ELSE U)

(***************************************************************************)
(* C8.  Every target resource written to an output file has a non-empty    *)
(* metadata.name.                                                          *)
(***************************************************************************)
C8_WrittenNameNonEmpty ==
    \A i \in 1..Len(writes) :
       LET name == Get(Get(writes[i].text.yaml, "metadata"), "name")
       IN name.t = "str" /\ name.v /= ""

(***************************************************************************)
(* C9.  Every target resource has secretStoreRef.kind 'ClusterSecretStore' *)
(* when the cluster flag is set and 'SecretStore' when it is not,          *)
(* secretStoreRef.name equal to the source's spec.backendType (undefined   *)
(* when the source has none) and spec.refreshInterval equal to the         *)
(* configured interval.                                                    *)
(***************************************************************************)
C9_StoreRefFollowsFlags ==
    \A i \in 1..Len(esoSecrets) :
       LET spec == Get(esoSecrets[i], "spec")
           ref == Get(spec, "secretStoreRef")
       IN /\ Get(ref, "kind") =
                S(IF cluster THEN "ClusterSecretStore" ELSE "SecretStore")
          /\ Get(ref, "name") = Get(Get(kept[i], "spec"), "backendType")
          /\ Get(spec, "refreshInterval") = S(refreshInterval)

\* A run with the cluster flag set built two target resources, one of a
\* source with a backendType and one of a source without.
C9_Witness ==
    /\ cluster
    /\ refreshInterval = "30m"
    /\ pc = "done"
    /\ \E i, j \in 1..Len(esoSecrets) :
          /\ Get(Get(kept[i], "spec"), "backendType") = S("vault")
          /\ Get(Get(kept[j], "spec"), "backendType") = U
          /\ Get(Get(Get(esoSecrets[j], "spec"), "secretStoreRef"), "name") = U

(***************************************************************************)
(* C10.  Nothing is issued to the output tree before every candidate of    *)
(* every file is read, filtered, cleaned and transformed; a run that ends  *)
(* by a failure of one of these stages has written nothing; and no         *)
(* diagnostic of an ineligible candidate follows a 'Writing to' line.      *)
(***************************************************************************)
C10_AllConvertedBeforeFirstWrite ==
    /\ Issued =>
          /\ pc \in {"write", "done", "crash_write"}
          /\ paths > 0 /\ fileIdx = paths /\ documents = 0
          /\ kept = Filtered(Len(cands))
          /\ Len(cleaned) = Len(kept)
          /\ Len(esoSecrets) = Len(kept)
    /\ pc \in {"crash_read", "crash_filter", "crash_clean", "crash_transform"}
          => ~Issued
    /\ \A i, j \in 1..Len(log) :
          (i < j /\ IsWriting(log[i])) => ~IsDiag(log[j])

\* A run dropped a candidate with a diagnostic and then wrote two resources.
C10_Witness ==
    /\ pc = "done"
    /\ Len(writes) = 2
    /\ \E i \in 1..Len(log) : IsDiag(log[i])
    /\ Len(cands) = 3

\* A run that had kept an eligible candidate ended in the filter.
CrashAfterKeepReached == pc = "crash_filter" /\ kept /= <<>>

====
